---- MODULE Spec2Model ----
(***************************************************************************)
(* Model of send_emails.py: the start-up checks of main(), the dispatch    *)
(* loop over the recipients, the retry loop around smtp.send_message and   *)
(* the SMTP session handling (with-block, reconnect).                      *)
(*                                                                         *)
(* Time is counted in milliseconds.  Strings the program converts          *)
(* (addresses, suppression lines) are sequences of one-character strings.  *)
(***************************************************************************)
EXTENDS Integers, Sequences, FiniteSets, TLC

\* ---------------------------------------------------------------- bounds
\* largest number of usable rows read from recipients.csv
MaxTotal == 2
\* largest value of the MAX_RETRIES setting that is explored
MaxRetriesBound == 2
\* largest MAX_RETRIES where the backoff sleeps are studied on their own
MaxBackoffRetries == 8

\* ------------------------------------------------------ program constants
\* JITTER = 0.2 (seconds), here in milliseconds
JITTER == 200
\* the cap of the backoff sleep, min(60, ...), in milliseconds
BackoffCapMs == 60000
\* one minute, the numerator of pause_seconds, in milliseconds
MinuteMs == 60000
\* one second in milliseconds (the unit of 2 ** (attempt - 1))
SecondMs == 1000

Min(a, b) == IF a <= b THEN a ELSE b
Max(a, b) == IF a >= b THEN a ELSE b

RECURSIVE Pow2(_)
Pow2(n) == IF n <= 0 THEN 1 ELSE 2 * Pow2(n - 1)

\* FALLBACKS = {"name": "there", "company": ""}
FALLBACKS == [name |-> "there", company |-> ""]

\* -------------------------------------------------------------- strings
\* str.lower() on one character of the alphabet used here
LowerChar(c) ==
    CASE c = "A" -> "a"
      [] c = "B" -> "b"
      [] c = "X" -> "x"
      [] OTHER -> c

\* str.lower()
Lower(s) == [k \in DOMAIN s |-> LowerChar(s[k])]

\* positions of "@" in an address
AtPositions(addr) == {k \in DOMAIN addr : addr[k] = "@"}

\* validate_email(addr, check_deliverability=True).normalized, or None:
\* the syntax needs one "@" with a local part and a domain; the domain must
\* resolve (deliverable, decided by the DNS); the normalized form keeps the
\* local part and lower-cases the domain.
normalize_email(addr, deliverable) ==
    IF Cardinality(AtPositions(addr)) = 1
       /\ (CHOOSE k \in AtPositions(addr) : TRUE) > 1
       /\ (CHOOSE k \in AtPositions(addr) : TRUE) < Len(addr)
       /\ deliverable
    THEN LET at == CHOOSE k \in AtPositions(addr) : TRUE
         IN  [ok |-> TRUE,
              value |-> [k \in DOMAIN addr |->
                            IF k > at THEN LowerChar(addr[k]) ELSE addr[k]]]
    ELSE [ok |-> FALSE, value |-> <<>>]

\* raw addresses that may stand in the email column
AddrChoices == { <<"A", "@", "X">>, <<"b", "@", "x">>, <<"a", "x">>, <<>> }

\* contents of the suppression file (its non-blank lines, stripped)
SuppressionFileChoices == { {}, {<<"A", "@", "X">>, <<"a", "x">>} }

\* suppressions = {l.strip().lower() for l in f if l.strip()}
LoadSuppressions(lines) == {Lower(l) : l \in lines}

\* variant: the lookup without .lower()
IsSuppressedNoLower(normalized, supp) == normalized \in supp
\* normalized.lower() in suppressions
IsSuppressed(normalized, supp) == Lower(normalized) \in supp

\* placeholder sets the three templates may reference
UsedKeyChoices == { {"email", "name"}, {"name", "company", "phone"} }

\* rows load_recipients yields: trimmed values, not all blank
RowChoices ==
    { r \in [email : AddrChoices, name : {"", "Bob"}, company : {"", "Acme"}] :
        /\ r.email # <<>> \/ r.name # "" \/ r.company # ""
        /\ r.email \in { <<"a", "x">>, <<>> } => r.name = "Bob" /\ r.company = ""
        /\ r.name = "Bob" => r.company = ""
        /\ r.company = "Acme" => r.email = <<"b", "@", "x">> }

NoRow == [email |-> <<>>, name |-> "", company |-> ""]
NoMsg == [to |-> <<>>, name |-> "", company |-> ""]

\* fallback tables explored besides the program's FALLBACKS
FallbackChoices ==
    { FALLBACKS, [name |-> "there"], [company |-> "n/a"], [key \in {} |-> ""] }

\* variant: required = {"email", "name", "company"}, whatever the templates use
required_fields_all(row, used_keys, fb) ==
    LET blank == {key \in {"name", "company"} : row[key] = ""}
        nofb == {key \in blank : key \notin DOMAIN fb}
    IN  [ok |-> nofb = {},
         row |-> [key \in DOMAIN row |->
                    IF key \in blank /\ key \in DOMAIN fb
                    THEN fb[key] ELSE row[key]]]

\* the body of ensure_required_fields with the FALLBACKS table it reads as fb:
\* (ok, row after fill-in)
required_fields(row, used_keys, fb) ==
    LET required == {"email"} \cup (used_keys \cap {"name", "company"})
        blank == {key \in required \ {"email"} : row[key] = ""}
        nofb == {key \in blank : key \notin DOMAIN fb}
    IN  [ok |-> nofb = {},
         row |-> [key \in DOMAIN row |->
                    IF key \in blank /\ key \in DOMAIN fb
                    THEN fb[key] ELSE row[key]]]

\* build_message(row, ...): the recipient header and the rendered fields
build_message(row) == [to |-> row.email, name |-> row.name, company |-> row.company]

\* ------------------------------------------------------------ settings
\* the module-level SMTP settings read from config.env
GoodConfig(secure) ==
    [SMTP_HOST |-> "h", SMTP_PORT |-> 587, SMTP_SECURE |-> secure,
     SMTP_USER |-> "u", SMTP_PASS |-> "p", FROM_EMAIL |-> "f", REPLY_TO |-> "f"]

ConfigChoices ==
    { GoodConfig("starttls"), GoodConfig("tls"),
      [GoodConfig("none") EXCEPT !.REPLY_TO = "", !.SMTP_PORT = 70000],
      [GoodConfig("starttls") EXCEPT !.SMTP_HOST = ""],
      [GoodConfig("ssl") EXCEPT !.SMTP_PASS = ""],
      [GoodConfig("starttls") EXCEPT !.SMTP_PORT = 0],
      [GoodConfig("ssl") EXCEPT !.SMTP_PORT = 70000],
      [GoodConfig("starttls") EXCEPT !.SMTP_USER = "", !.FROM_EMAIL = "", !.REPLY_TO = ""] }

\* RATE_LIMIT_PER_MIN = max(1, int(...)), MAX_RETRIES = max(1, int(...))
RateRawChoices == {0, 120}
ClampMin1(raw) == Max(1, raw)

\* all([SMTP_HOST, SMTP_PORT, SMTP_USER, SMTP_PASS, FROM_EMAIL])
ConfigComplete(c) ==
    /\ c.SMTP_HOST # ""
    /\ c.SMTP_PORT # 0
    /\ c.SMTP_USER # ""
    /\ c.SMTP_PASS # ""
    /\ c.FROM_EMAIL # ""

\* variant: 6.0 / RATE_LIMIT_PER_MIN
PauseTenth(rate) == (MinuteMs \div 10) \div rate
\* pause_seconds = 60.0 / RATE_LIMIT_PER_MIN
PauseMs(rate) == MinuteMs \div rate

\* header rows of recipients.csv and their normalisation (strip().lower())
NormHeader(h) ==
    CASE h = "Email" -> "email"
      [] h = " email " -> "email"
      [] h = "Name" -> "name"
      [] h = "COMPANY" -> "company"
      [] OTHER -> h

\* the files main() finds: the two templates and recipients.csv (its header
\* row and the number of rows that are not all blank)
GoodCsv(n) == [exists |-> TRUE, headers |-> <<" email ", "Name", "COMPANY">>, nrows |-> n]
GoodFiles(n) == [html |-> TRUE, text |-> TRUE, csv |-> GoodCsv(n)]

FileChoices ==
    { GoodFiles(n) : n \in 0..MaxTotal }
    \cup { [GoodFiles(1) EXCEPT !.html = FALSE],
           [GoodFiles(1) EXCEPT !.text = FALSE],
           [GoodFiles(1) EXCEPT !.csv.exists = FALSE],
           [GoodFiles(1) EXCEPT !.csv.headers = <<>>],
           [GoodFiles(1) EXCEPT !.csv.headers = <<"Name", "COMPANY">>],
           [GoodFiles(1) EXCEPT !.csv.headers = <<"Email", "Name">>] }

\* csv_preflight(csv_path, required)
csv_preflight(csv, required) ==
    /\ csv.exists
    /\ csv.headers # <<>>
    /\ LET norm == {NormHeader(csv.headers[k]) : k \in DOMAIN csv.headers}
       IN  \A c \in required : c \in norm

\* what the network and the servers answer during smtp_config_preflight
PreflightEnv ==
    [fromValid : BOOLEAN, replyValid : BOOLEAN, dnsOK : BOOLEAN,
     connOK : BOOLEAN, deep : BOOLEAN, loginOK : BOOLEAN]

PortValid(port) == 1 <= port /\ port <= 65535

\* the errors list of smtp_config_preflight before the deep check (steps 1-6)
PreflightErrorsShallow(c, env) ==
    (IF ~ConfigComplete(c) THEN {"missing"} ELSE {})
    \cup (IF ~PortValid(c.SMTP_PORT) THEN {"port"} ELSE {})
    \cup (IF c.SMTP_SECURE \notin {"starttls", "ssl", "none"} THEN {"secure"} ELSE {})
    \cup (IF c.FROM_EMAIL = "" \/ ~env.fromValid THEN {"from"} ELSE {})
    \cup (IF c.REPLY_TO # "" /\ ~env.replyValid THEN {"reply"} ELSE {})
    \cup (IF c.SMTP_HOST # "" /\ ~env.dnsOK THEN {"dns"} ELSE {})
    \cup (IF ~(c.SMTP_HOST # "" /\ PortValid(c.SMTP_PORT) /\ env.connOK)
          THEN {"connect"} ELSE {})

\* the errors list of smtp_config_preflight (steps 1-7)
PreflightErrors(c, env) ==
    PreflightErrorsShallow(c, env)
    \cup (IF env.deep /\ PreflightErrorsShallow(c, env) = {} /\ ~env.loginOK
          THEN {"login"} ELSE {})

\* smtp_config_preflight()
smtp_config_preflight(c, env) == PreflightErrors(c, env) = {}

\* the network activity of smtp_config_preflight: the DNS lookups of
\* validate_email and getaddrinfo, the connection of step 6, the login of 7
PreflightNet(c, env) ==
    (IF c.FROM_EMAIL # "" \/ c.REPLY_TO # "" \/ c.SMTP_HOST # "" THEN {"dns"} ELSE {})
    \cup (IF c.SMTP_HOST # "" /\ PortValid(c.SMTP_PORT) THEN {"connect"} ELSE {})
    \cup (IF env.deep /\ PreflightErrorsShallow(c, env) = {} THEN {"login"} ELSE {})

\* -------------------------------------------------------------- retrying
\* SMTP reply codes a rejected send may carry
ResponseCodes == {421, 450, 550}

\* variant: is_temp = 400 <= code
IsTempAny4xxUp(code) == 400 <= code
\* is_temp = 400 <= code < 500
is_temp_of(code) == 400 <= code /\ code < 500

\* variant: if attempt <= MAX_RETRIES and is_temp
RetryEligibleLeq(attempt, max_retries, is_temp) == attempt <= max_retries /\ is_temp
\* if attempt < MAX_RETRIES and is_temp
RetryEligible(attempt, max_retries, is_temp) == attempt < max_retries /\ is_temp

\* random.uniform(0, JITTER)
JitterChoices == {0, JITTER - 1}

\* variant: the backoff without the 60 s cap
sleep_timeNoCap(attempt, jitter) == SecondMs * Pow2(attempt - 1) + jitter
\* sleep_time = min(60, (2 ** (attempt - 1)) + random.uniform(0, JITTER))
sleep_time(attempt, jitter) == Min(BackoffCapMs, SecondMs * Pow2(attempt - 1) + jitter)

\* variant: the rate-limit pause without the test
NeedsPauseAlways(idx, tot) == TRUE
\* if i < total (the rate-limit pause is taken)
NeedsPause(idx, tot) == idx < tot

\* variant: the empty list is not detected
NoRecipientsNever(tot) == FALSE
\* if total == 0
NoRecipients(tot) == tot = 0

\* ------------------------------------------------------------------ state
VARIABLES
    cfg,                \* SMTP_HOST, SMTP_PORT, SMTP_SECURE, ... (module level)
    DRY_RUN,            \* module level
    MAX_RETRIES,        \* module level
    RATE_LIMIT_PER_MIN, \* module level
    fs,                 \* the files on disk
    fallbacks,          \* the module-level FALLBACKS table
    pc,                 \* where main() is
    used_keys, suppressions, pause_seconds, total,
    errors,             \* the errors list of smtp_config_preflight
    i, row, msg, attempt,
    sent, failed, invalid_total, skipped,
    sessions,           \* every session smtp_client() returned to main
    smtp,               \* the session the name smtp is bound to
    net,                \* kinds of network activity so far
    summary,            \* the "Done." lines logged
    log,                \* what happened to recipient i, in order
    base,               \* the counters and the row when recipient i was started
    slept,              \* the time.sleep call of the last step
    pauses,             \* rate-limit pauses since recipient i was started
    sendCalls,          \* smtp.send_message calls of the run
    lastSendTo,         \* recipient of the last smtp.send_message call
    paceSince           \* longest rate-limit pause since that call

vars ==
    << cfg, DRY_RUN, MAX_RETRIES, RATE_LIMIT_PER_MIN, fs, fallbacks, pc, used_keys,
       suppressions, pause_seconds, total, errors, i, row, msg, attempt, sent,
       failed, invalid_total, skipped, sessions, smtp, net, summary, log, base,
       slept, pauses, sendCalls, lastSendTo, paceSince >>

settings == << cfg, DRY_RUN, MAX_RETRIES, RATE_LIMIT_PER_MIN, fs, fallbacks >>
loaded == << used_keys, suppressions, pause_seconds, total >>
counters == << sent, failed, invalid_total, skipped >>
history == << log, base, slept, pauses, sendCalls, lastSendTo, paceSince >>

NoSleep == [kind |-> "none", ms |-> 0]
Counts == [sent |-> sent, failed |-> failed, skipped |-> skipped, invalid |-> invalid_total]
\* the counters before recipient i and its row as load_recipients yielded it
Snapshot(r) ==
    [sent |-> sent, failed |-> failed, skipped |-> skipped,
     invalid |-> invalid_total, raw |-> r]

\* ensure_required_fields(row, used_keys, i, total): (ok, row after fill-in)
ensure_required_fields(r, keys) == required_fields(r, keys, fallbacks)

Init ==
    /\ cfg \in ConfigChoices
    /\ DRY_RUN \in BOOLEAN
    /\ MAX_RETRIES \in {ClampMin1(raw) : raw \in 0..MaxRetriesBound}
    /\ RATE_LIMIT_PER_MIN \in {ClampMin1(raw) : raw \in RateRawChoices}
    /\ fs \in FileChoices
    /\ fallbacks = FALLBACKS
    /\ pc = "main"
    /\ used_keys = {}
    /\ suppressions = {}
    /\ pause_seconds = 0
    /\ total = 0
    /\ errors = {}
    /\ i = 0
    /\ row = NoRow
    /\ msg = NoMsg
    /\ attempt = 0
    /\ sent = 0
    /\ failed = 0
    /\ invalid_total = 0
    /\ skipped = 0
    /\ sessions = <<>>
    /\ smtp = 0
    /\ net = {}
    /\ summary = <<>>
    /\ log = <<>>
    /\ base = [sent |-> 0, failed |-> 0, skipped |-> 0, invalid |-> 0, raw |-> NoRow]
    /\ slept = NoSleep
    /\ pauses = 0
    /\ sendCalls = 0
    /\ lastSendTo = 0
    /\ paceSince = 0

\* ------------------------------------------------------- main(): start-up
\* if not all([...]): return
AbortMissingConfig ==
    /\ pc = "main"
    /\ ~ConfigComplete(cfg)
    /\ pc' = "returned"
    /\ UNCHANGED << settings, loaded, errors, i, row, msg, attempt, counters,
                    sessions, smtp, net, summary, history >>

\* if not (require_file(HTML) and require_file(TEXT)): return
AbortMissingTemplate ==
    /\ pc = "main"
    /\ ConfigComplete(cfg)
    /\ ~(fs.html /\ fs.text)
    /\ pc' = "returned"
    /\ UNCHANGED << settings, loaded, errors, i, row, msg, attempt, counters,
                    sessions, smtp, net, summary, history >>

\* templates read, used_keys extracted, suppressions loaded, pause_seconds set
LoadTemplates ==
    /\ pc = "main"
    /\ ConfigComplete(cfg)
    /\ fs.html /\ fs.text
    /\ used_keys' \in UsedKeyChoices
    /\ \E lines \in SuppressionFileChoices : suppressions' = LoadSuppressions(lines)
    /\ pause_seconds' = PauseMs(RATE_LIMIT_PER_MIN)
    /\ pc' = "csv"
    /\ UNCHANGED << settings, total, errors, i, row, msg, attempt, counters,
                    sessions, smtp, net, summary, history >>

required_cols == {"email"} \cup (used_keys \cap {"name", "company"})

\* if not csv_preflight(RECIPIENTS_CSV, required=...): return
AbortCsv ==
    /\ pc = "csv"
    /\ ~csv_preflight(fs.csv, required_cols)
    /\ pc' = "returned"
    /\ UNCHANGED << settings, loaded, errors, i, row, msg, attempt, counters,
                    sessions, smtp, net, summary, history >>

\* rows loaded, total == 0: return
AbortNoRecipients ==
    /\ pc = "csv"
    /\ csv_preflight(fs.csv, required_cols)
    /\ total' = fs.csv.nrows
    /\ NoRecipients(total')
    /\ pc' = "returned"
    /\ UNCHANGED << settings, used_keys, suppressions, pause_seconds, errors, i,
                    row, msg, attempt, counters, sessions, smtp, net, summary,
                    history >>

\* rows loaded, total > 0
RecipientsLoaded ==
    /\ pc = "csv"
    /\ csv_preflight(fs.csv, required_cols)
    /\ total' = fs.csv.nrows
    /\ ~NoRecipients(total')
    /\ pc' = "preflight"
    /\ UNCHANGED << settings, used_keys, suppressions, pause_seconds, errors, i,
                    row, msg, attempt, counters, sessions, smtp, net, summary,
                    history >>

\* if not smtp_config_preflight(): return
AbortPreflight ==
    /\ pc = "preflight"
    /\ \E env \in PreflightEnv :
          /\ ~smtp_config_preflight(cfg, env)
          /\ errors' = PreflightErrors(cfg, env)
          /\ net' = net \cup PreflightNet(cfg, env)
    /\ pc' = "returned"
    /\ UNCHANGED << settings, loaded, i, row, msg, attempt, counters, sessions,
                    smtp, summary, history >>

\* smtp_config_preflight() returned True
PreflightPassed ==
    /\ pc = "preflight"
    /\ \E env \in PreflightEnv :
          /\ smtp_config_preflight(cfg, env)
          /\ errors' = PreflightErrors(cfg, env)
          /\ net' = net \cup PreflightNet(cfg, env)
    /\ pc' = "connect"
    /\ UNCHANGED << settings, loaded, i, row, msg, attempt, counters, sessions,
                    smtp, summary, history >>

\* open: connected; exits: times the with block left it (quit and close);
\* lost: a send on it raised SMTPServerDisconnected
NewSession == [open |-> TRUE, exits |-> 0, lost |-> FALSE]

\* with smtp_client() as smtp: the session is opened and logged in
OpenSession ==
    /\ pc = "connect"
    /\ sessions' = << NewSession >>
    /\ smtp' = 1
    /\ net' = net \cup {"dns", "connect", "login"}
    /\ pc' = "loop"
    /\ UNCHANGED << settings, loaded, errors, i, row, msg, attempt, counters,
                    summary, history >>

\* with smtp_client() as smtp: smtp_client() raises, the exception leaves main()
OpenSessionFails ==
    /\ pc = "connect"
    /\ net' = net \cup {"dns", "connect"}
    /\ pc' = "raised"
    /\ UNCHANGED << settings, loaded, errors, i, row, msg, attempt, counters,
                    sessions, smtp, summary, history >>

\* -------------------------------------------------- main(): dispatch loop
\* the history of a recipient that is started now
Started(events, r) ==
    /\ log' = events
    /\ base' = Snapshot(r)
    /\ slept' = NoSleep
    /\ pauses' = 0
    /\ UNCHANGED << sendCalls, lastSendTo, paceSince >>

\* variant: an invalid address is counted invalid but not failed
RecipientInvalidOnly ==
    /\ pc = "loop"
    /\ i < total
    /\ \E r \in RowChoices, deliverable \in BOOLEAN :
          /\ ~normalize_email(r.email, deliverable).ok
          /\ row' = r
          /\ Started(<< "invalid" >>, r)
    /\ i' = i + 1
    /\ invalid_total' = invalid_total + 1
    /\ pc' = "loop"
    /\ UNCHANGED << settings, loaded, errors, msg, attempt, sent, failed, skipped,
                    sessions, smtp, net, summary >>

\* normalize_email(email) is None: failed += 1; invalid_total += 1; continue
RecipientInvalid ==
    /\ pc = "loop"
    /\ i < total
    /\ \E r \in RowChoices, deliverable \in BOOLEAN :
          /\ ~normalize_email(r.email, deliverable).ok
          /\ row' = r
          /\ Started(<< "invalid" >>, r)
    /\ i' = i + 1
    /\ failed' = failed + 1
    /\ invalid_total' = invalid_total + 1
    /\ pc' = "loop"
    /\ UNCHANGED << settings, loaded, errors, msg, attempt, sent, skipped,
                    sessions, smtp, net, summary >>

\* variant: the suppression lookup on the raw address, before validation
RecipientSuppressedFirst ==
    /\ pc = "loop"
    /\ i < total
    /\ \E r \in RowChoices :
          /\ IsSuppressed(r.email, suppressions)
          /\ row' = r
          /\ Started(<< "suppressed" >>, r)
    /\ i' = i + 1
    /\ skipped' = skipped + 1
    /\ pc' = "loop"
    /\ UNCHANGED << settings, loaded, errors, msg, attempt, sent, failed,
                    invalid_total, sessions, smtp, net, summary >>

\* normalized.lower() in suppressions: skipped += 1; continue
RecipientSuppressed ==
    /\ pc = "loop"
    /\ i < total
    /\ \E r \in RowChoices :
          LET n == normalize_email(r.email, TRUE)
          IN  /\ n.ok
              /\ IsSuppressed(n.value, suppressions)
              /\ row' = [r EXCEPT !.email = n.value]
              /\ Started(<< "suppressed" >>, r)
    /\ i' = i + 1
    /\ skipped' = skipped + 1
    /\ pc' = "loop"
    /\ UNCHANGED << settings, loaded, errors, msg, attempt, sent, failed,
                    invalid_total, sessions, smtp, net, summary >>

\* ensure_required_fields; not ok: failed += 1; continue; ok: build_message
\* and enter the retry loop with attempt = 1
RecipientPrepared ==
    /\ pc = "loop"
    /\ i < total
    /\ \E r \in RowChoices :
          LET n == normalize_email(r.email, TRUE)
              f == ensure_required_fields([r EXCEPT !.email = n.value], used_keys)
          IN  /\ n.ok
              /\ ~IsSuppressed(n.value, suppressions)
              /\ row' = f.row
              /\ IF f.ok
                 THEN /\ msg' = build_message(f.row)
                      /\ attempt' = 1
                      /\ pc' = "attempt"
                      /\ failed' = failed
                      /\ Started(<< "fields", "build" >>, r)
                 ELSE /\ failed' = failed + 1
                      /\ pc' = "loop"
                      /\ Started(<< "fields", "missing" >>, r)
                      /\ UNCHANGED << msg, attempt >>
    /\ i' = i + 1
    /\ UNCHANGED << settings, loaded, errors, sent, invalid_total, skipped,
                    sessions, smtp, net, summary >>

\* for attempt in range(1, MAX_RETRIES + 1): the next attempt, or the end of
\* the for loop when this was the last one
ForAdvance ==
    IF attempt < MAX_RETRIES
    THEN attempt' = attempt + 1 /\ pc' = "attempt"
    ELSE attempt' = attempt /\ pc' = "pace"

\* variant: a failure that is not retried leaves main() instead of the retry loop
RetryOrFailStop(is_temp, events) ==
    IF RetryEligible(attempt, MAX_RETRIES, is_temp)
    THEN /\ \E jitter \in JitterChoices :
               slept' = [kind |-> "backoff", ms |-> sleep_time(attempt, jitter)]
         /\ log' = log \o events \o << "backoff" >>
         /\ failed' = failed
         /\ ForAdvance
    ELSE /\ failed' = failed + 1
         /\ slept' = NoSleep
         /\ log' = log \o events
         /\ attempt' = attempt
         /\ pc' = "raised"

\* if attempt < MAX_RETRIES and is_temp: sleep; else: failed += 1; break
RetryOrFail(is_temp, events) ==
    IF RetryEligible(attempt, MAX_RETRIES, is_temp)
    THEN /\ \E jitter \in JitterChoices :
               slept' = [kind |-> "backoff", ms |-> sleep_time(attempt, jitter)]
         /\ log' = log \o events \o << "backoff" >>
         /\ failed' = failed
         /\ ForAdvance
    ELSE /\ failed' = failed + 1
         /\ slept' = NoSleep
         /\ log' = log \o events
         /\ attempt' = attempt
         /\ pc' = "pace"

\* the history of one smtp.send_message call
SendCalled ==
    /\ sendCalls' = sendCalls + 1
    /\ lastSendTo' = i
    /\ paceSince' = 0
    /\ UNCHANGED << base, pauses >>

\* variant: a dry run that reaches smtp.send_message before it looks at DRY_RUN
DryRunAttemptAfterSend ==
    /\ pc = "attempt"
    /\ DRY_RUN
    /\ skipped' = skipped + 1
    /\ pc' = "pace"
    /\ log' = log \o << "dry" >>
    /\ slept' = NoSleep
    /\ SendCalled
    /\ UNCHANGED << settings, loaded, errors, i, row, msg, attempt, sent, failed,
                    invalid_total, sessions, smtp, net, summary >>

\* if DRY_RUN: skipped += 1; break
DryRunAttempt ==
    /\ pc = "attempt"
    /\ DRY_RUN
    /\ skipped' = skipped + 1
    /\ pc' = "pace"
    /\ log' = log \o << "dry" >>
    /\ slept' = NoSleep
    /\ UNCHANGED << settings, loaded, errors, i, row, msg, attempt, sent, failed,
                    invalid_total, sessions, smtp, net, summary, base, pauses,
                    sendCalls, lastSendTo, paceSince >>

\* variant: a successful send without the break
SendOkNoBreak ==
    /\ pc = "attempt"
    /\ ~DRY_RUN
    /\ sessions[smtp].open
    /\ sent' = sent + 1
    /\ ForAdvance
    /\ log' = log \o << "ok" >>
    /\ slept' = NoSleep
    /\ SendCalled
    /\ UNCHANGED << settings, loaded, errors, i, row, msg, failed,
                    invalid_total, skipped, sessions, smtp, net, summary >>

\* smtp.send_message(msg) returns: sent += 1; break
SendOk ==
    /\ pc = "attempt"
    /\ ~DRY_RUN
    /\ sessions[smtp].open
    /\ sent' = sent + 1
    /\ pc' = "pace"
    /\ log' = log \o << "ok" >>
    /\ slept' = NoSleep
    /\ SendCalled
    /\ UNCHANGED << settings, loaded, errors, i, row, msg, attempt, failed,
                    invalid_total, skipped, sessions, smtp, net, summary >>

\* smtp.send_message(msg) raises SMTPResponseException with code e.smtp_code
\* (after a 421 reply smtplib has closed the connection); the reply text is
\* ASCII or UTF-8, as RFC 5321 and RFC 6531 require, so e.smtp_error.decode()
\* returns
SendRejected ==
    /\ pc = "attempt"
    /\ ~DRY_RUN
    /\ sessions[smtp].open
    /\ \E code \in ResponseCodes :
          /\ sessions' = [sessions EXCEPT ![smtp].open = (code # 421)]
          /\ RetryOrFail(is_temp_of(code), << ToString(code) >>)
    /\ SendCalled
    /\ UNCHANGED << settings, loaded, errors, i, row, msg, sent, invalid_total,
                    skipped, smtp, net, summary >>

\* smtp.send_message(msg) raises another Exception: is_temp = True
SendError ==
    /\ pc = "attempt"
    /\ ~DRY_RUN
    /\ RetryOrFail(TRUE, << "err" >>)
    /\ SendCalled
    /\ UNCHANGED << settings, loaded, errors, i, row, msg, sent, invalid_total,
                    skipped, sessions, smtp, net, summary >>

\* smtp.send_message(msg) raises SMTPServerDisconnected (the connection was
\* or is now closed), smtp = smtp_client() succeeds: continue
SendDisconnectedReconnected ==
    /\ pc = "attempt"
    /\ ~DRY_RUN
    /\ sessions' = Append([sessions EXCEPT ![smtp].open = FALSE, ![smtp].lost = TRUE],
                          NewSession)
    /\ smtp' = Len(sessions) + 1
    /\ log' = log \o << "disc", "reconnected" >>
    /\ slept' = NoSleep
    /\ ForAdvance
    /\ SendCalled
    /\ UNCHANGED << settings, loaded, errors, i, row, msg, counters, net,
                    summary >>

\* variant: a failed reconnect that is not retried (is_temp = False)
SendDisconnectedReconnectFatal ==
    /\ pc = "attempt"
    /\ ~DRY_RUN
    /\ sessions' = [sessions EXCEPT ![smtp].open = FALSE, ![smtp].lost = TRUE]
    /\ RetryOrFail(FALSE, << "disc", "noreconnect" >>)
    /\ SendCalled
    /\ UNCHANGED << settings, loaded, errors, i, row, msg, sent, invalid_total,
                    skipped, smtp, net, summary >>

\* smtp.send_message(msg) raises SMTPServerDisconnected, smtp_client() raises:
\* is_temp = True
SendDisconnectedReconnectFailed ==
    /\ pc = "attempt"
    /\ ~DRY_RUN
    /\ sessions' = [sessions EXCEPT ![smtp].open = FALSE, ![smtp].lost = TRUE]
    /\ RetryOrFail(TRUE, << "disc", "noreconnect" >>)
    /\ SendCalled
    /\ UNCHANGED << settings, loaded, errors, i, row, msg, sent, invalid_total,
                    skipped, smtp, net, summary >>

\* if i < total: time.sleep(pause_seconds + random.uniform(0, JITTER))
Pace ==
    /\ pc = "pace"
    /\ IF NeedsPause(i, total)
       THEN \E jitter \in JitterChoices :
              /\ slept' = [kind |-> "pace", ms |-> pause_seconds + jitter]
              /\ pauses' = pauses + 1
              /\ paceSince' = Max(paceSince, pause_seconds + jitter)
       ELSE /\ slept' = NoSleep
            /\ UNCHANGED << pauses, paceSince >>
    /\ pc' = "loop"
    /\ UNCHANGED << settings, loaded, errors, i, row, msg, attempt, counters,
                    sessions, smtp, net, summary, log, base, sendCalls,
                    lastSendTo >>

\* the for loop is over: the with block closes the session it opened, then
\* logging.info("Done. Sent: ... | Failed: ... | Skipped(dry-run): ... | Log: ...")
Finish ==
    /\ pc = "loop"
    /\ i = total
    /\ sessions' = [sessions EXCEPT ![1].open = FALSE, ![1].exits = @ + 1]
    /\ summary' = Append(summary, [sent |-> sent, failed |-> failed,
                                   skipped |-> skipped, log_name |-> "log_name"])
    /\ pc' = "done"
    /\ slept' = NoSleep
    /\ UNCHANGED << settings, loaded, errors, i, row, msg, attempt, counters,
                    smtp, net, log, base, pauses, sendCalls, lastSendTo,
                    paceSince >>

Next ==
    \/ AbortMissingConfig
    \/ AbortMissingTemplate
    \/ LoadTemplates
    \/ AbortCsv
    \/ AbortNoRecipients
    \/ RecipientsLoaded
    \/ AbortPreflight
    \/ PreflightPassed
    \/ OpenSession
    \/ OpenSessionFails
    \/ RecipientInvalid
    \/ RecipientSuppressed
    \/ RecipientPrepared
    \/ DryRunAttempt
    \/ SendOk
    \/ SendRejected
    \/ SendError
    \/ SendDisconnectedReconnected
    \/ SendDisconnectedReconnectFailed
    \/ Pace
    \/ Finish

Spec == Init /\ [][Next]_vars


\* ------------------------------------------------ the loop studied alone
\* the state of main() when `for i, row in enumerate(rows, start=1)` starts:
\* settings read, templates and n recipients loaded, preflight passed, the
\* session of the with statement open
LoopTop(dry, retries, n, keys, supp, fb) ==
    /\ cfg = GoodConfig("starttls")
    /\ DRY_RUN = dry
    /\ MAX_RETRIES = retries
    /\ RATE_LIMIT_PER_MIN = 120
    /\ fs = GoodFiles(n)
    /\ fallbacks = fb
    /\ pc = "loop"
    /\ used_keys = keys
    /\ suppressions = supp
    /\ pause_seconds = PauseMs(120)
    /\ total = n
    /\ errors = {}
    /\ i = 0
    /\ row = NoRow
    /\ msg = NoMsg
    /\ attempt = 0
    /\ sent = 0
    /\ failed = 0
    /\ invalid_total = 0
    /\ skipped = 0
    /\ sessions = << NewSession >>
    /\ smtp = 1
    /\ net = {"dns", "connect", "login"}
    /\ summary = <<>>
    /\ log = <<>>
    /\ base = [sent |-> 0, failed |-> 0, skipped |-> 0, invalid |-> 0, raw |-> NoRow]
    /\ slept = NoSleep
    /\ pauses = 0
    /\ sendCalls = 0
    /\ lastSendTo = 0
    /\ paceSince = 0

\* one recipient, real sends, MAX_RETRIES up to MaxBackoffRetries: the retry
\* loop runs through every backoff sleep up to the cap
InitBackoff ==
    \E retries \in 1..MaxBackoffRetries :
        LoopTop(FALSE, retries, 1, {"email", "name"}, {}, FALLBACKS)

NextBackoff ==
    \/ RecipientPrepared
    \/ SendRejected
    \/ SendError
    \/ Pace
    \/ Finish

SpecBackoff == InitBackoff /\ [][NextBackoff]_vars

\* a dry run over up to MaxTotal recipients with each fallback table: the
\* loop up to ensure_required_fields and build_message, no sends
InitFields ==
    \E n \in 1..MaxTotal, keys \in UsedKeyChoices, lines \in SuppressionFileChoices,
       fb \in FallbackChoices :
        LoopTop(TRUE, 1, n, keys, LoadSuppressions(lines), fb)

NextFields ==
    \/ RecipientInvalid
    \/ RecipientSuppressed
    \/ RecipientPrepared
    \/ DryRunAttempt
    \/ Pace
    \/ Finish

SpecFields == InitFields /\ [][NextFields]_vars

\* the dispatch loop from its start, dry or real, over up to MaxTotal
\* recipients with up to MaxRetriesBound attempts each
InitLoop ==
    \E dry \in BOOLEAN, retries \in 1..MaxRetriesBound, n \in 1..MaxTotal,
       lines \in SuppressionFileChoices :
        LoopTop(dry, retries, n, {"email", "name"}, LoadSuppressions(lines), FALLBACKS)

NextLoop ==
    \/ RecipientInvalid
    \/ RecipientSuppressed
    \/ RecipientPrepared
    \/ DryRunAttempt
    \/ SendOk
    \/ SendRejected
    \/ SendError
    \/ SendDisconnectedReconnected
    \/ SendDisconnectedReconnectFailed
    \/ Pace
    \/ Finish

\* main() is one sequential thread and each of its steps ends: the sleeps are
\* finite, the SMTP calls return or raise within their timeouts
FairLoopSpec == InitLoop /\ [][NextLoop]_vars /\ WF_vars(NextLoop)

\* ----------------------------------------------------------- properties
\* log entries that stand for one smtp.send_message call
SendEvents == {"ok", "err", "disc", "421", "450", "550"}
\* ... that reported a temporary failure (4xx reply or unclassified error)
TempEvents == {"err", "421", "450"}
Count(l, S) == Cardinality({k \in DOMAIN l : l[k] \in S})
Sends(l) == Count(l, SendEvents)
SendsUpTo(l, k) == Cardinality({m \in DOMAIN l : m <= k /\ l[m] \in SendEvents})

\* recipient i went through field completion and build_message
ReachedSend == Len(log) >= 2 /\ log[1] = "fields" /\ log[2] = "build"
\* recipient i has left the retry loop, or was rejected before it
Processed == i >= 1 /\ pc \in {"pace", "loop", "done"}
OnlyFailedCounted ==
    failed = base.failed + 1 /\ sent = base.sent /\ skipped = base.skipped
OnlySkippedCounted ==
    skipped = base.skipped + 1 /\ sent = base.sent /\ failed = base.failed
       /\ invalid_total = base.invalid

\* C1: whenever the loop is between recipients or over, sent + failed +
\* skipped equals the number of recipients processed and invalid <= failed.
C1_CounterPartition ==
    pc \in {"loop", "done"} =>
        sent + failed + skipped = i /\ invalid_total <= failed

C4_DryRunNoSend ==
    DRY_RUN =>
        /\ sendCalls = 0
        /\ sent = 0
        /\ Len(sessions) <= 1
        /\ \A k \in DOMAIN log : log[k] \notin SendEvents \cup {"reconnected", "backoff"}
        /\ (Processed /\ log[1] \notin {"invalid", "suppressed"}) =>
              /\ log = << "fields", "build", "dry" >>
              /\ attempt = 1
              /\ OnlySkippedCounted
        /\ (pc = "loop" /\ 1 <= i /\ i < total /\ ReachedSend) =>
              /\ pauses = 1
              /\ slept.kind = "pace"
              /\ slept.ms >= MinuteMs \div RATE_LIMIT_PER_MIN

C4_Witness ==
    /\ DRY_RUN
    /\ pc = "loop"
    /\ i = 1
    /\ total = 2
    /\ log = << "fields", "build", "dry" >>
    /\ skipped = 1
    /\ slept.kind = "pace"

\* C5 (state part): a recipient with a valid address whose lower-cased
\* normalized form is in the suppression set is counted skipped once, with no
\* field completion, no message build and no send attempt; one whose address
\* is not in the set goes on to field completion.
SuppressionDecides ==
    (i >= 1 /\ pc \in {"attempt", "pace", "loop", "done"} /\ log[1] # "invalid") =>
        IF Lower(row.email) \in suppressions
        THEN log = << "suppressed" >> /\ OnlySkippedCounted /\ pc \in {"loop", "done"}
        ELSE log[1] = "fields"

\* C5: SuppressionDecides holds after every step, and no step of the
\* dispatch loop changes the suppression set.
C5_SuppressionPrecedence ==
    [][ /\ SuppressionDecides'
        /\ pc \in {"loop", "attempt", "pace"} => suppressions' = suppressions ]_vars

C5_Witness ==
    /\ pc = "loop"
    /\ log = << "suppressed" >>
    /\ row.email = << "A", "@", "x" >>
    /\ skipped = base.skipped + 1
    /\ sendCalls = 0

\* C6: when the run is over, every session it opened has been closed by the
\* program exactly once.
C6_EverySessionClosedOnce ==
    pc \in {"done", "returned", "raised"} =>
        \A s \in DOMAIN sessions : sessions[s].exits = 1 /\ ~sessions[s].open

\* C7: every successful reconnect of a recipient is followed by a further
\* send attempt for that recipient, made on the new session.
C7_ReconnectThenSend ==
    \A k \in DOMAIN log :
        log[k] = "reconnected" =>
            \/ pc = "attempt" /\ k = Len(log) /\ smtp = Len(sessions)
            \/ k < Len(log) /\ log[k + 1] \in SendEvents

\* the pause before the next recipient as the code takes it
PausedOnce ==
    /\ pauses = 1
    /\ slept.kind = "pace"
    /\ slept.ms >= MinuteMs \div RATE_LIMIT_PER_MIN
    /\ slept.ms < MinuteMs \div RATE_LIMIT_PER_MIN + JITTER

C9_OrderAndPacing ==
    [][ /\ i' = i \/ i' = i + 1
        /\ i' = i + 1 => pc = "loop" /\ i < total
        /\ sendCalls' # sendCalls =>
              /\ i' = i
              /\ lastSendTo' = i
              /\ lastSendTo <= i
              /\ (lastSendTo # 0 /\ lastSendTo < i) =>
                    paceSince >= MinuteMs \div RATE_LIMIT_PER_MIN ]_vars

C9_Witness ==
    /\ i = 2
    /\ lastSendTo = 2
    /\ Sends(log) = 1
    /\ sendCalls >= 2
    /\ paceSince = 0

\* the recipient source is missing, has no header row or no email column
BadRecipientSource ==
    \/ ~fs.csv.exists
    \/ fs.csv.headers = <<>>
    \/ \A k \in DOMAIN fs.csv.headers :
          fs.csv.headers[k] \notin {"email", "Email", " email "}

\* C10: with an incomplete SMTP configuration, a missing template, a bad or
\* empty recipient source or a failed SMTP preflight, main() never opens the
\* dispatch session, never starts a recipient, makes no send call and leaves
\* the counters at zero.
C10_AbortBeforeSend ==
    ( \/ ~ConfigComplete(cfg)
      \/ ~fs.html
      \/ ~fs.text
      \/ BadRecipientSource
      \/ fs.csv.nrows = 0
      \/ errors # {} )
    => /\ pc \in {"main", "csv", "preflight", "returned"}
       /\ sessions = <<>>
       /\ sendCalls = 0
       /\ i = 0
       /\ sent = 0 /\ failed = 0 /\ skipped = 0 /\ invalid_total = 0

C10_Witness ==
    /\ pc = "returned"
    /\ ConfigComplete(cfg)
    /\ fs.html /\ fs.text
    /\ ~BadRecipientSource
    /\ fs.csv.nrows = 0
    /\ total = 0
    /\ sessions = <<>>

\* the SMTP settings are missing or invalid, a template is missing or the
\* recipient source is malformed
ConfigurationError ==
    \/ ~ConfigComplete(cfg)
    \/ cfg.SMTP_PORT < 1 \/ cfg.SMTP_PORT > 65535
    \/ cfg.SMTP_SECURE \notin {"starttls", "ssl", "none"}
    \/ ~fs.html
    \/ ~fs.text
    \/ BadRecipientSource

\* C11: a run that was aborted with a configuration error has performed no
\* network activity (no DNS lookup, no connection, no SMTP handshake).
C11_ConfigAbortBeforeNetwork ==
    (pc = "returned" /\ ConfigurationError) => net = {}

\* C14: when the loop has finished, exactly one summary has been emitted and
\* it carries the final values of sent, failed, skipped and invalid and the
\* log destination.
C14_SummaryReportsFourCounters ==
    pc = "done" =>
        /\ Len(summary) = 1
        /\ {"sent", "failed", "skipped", "invalid", "log_name"} \subseteq DOMAIN summary[1]
        /\ summary[1].sent = sent
        /\ summary[1].failed = failed
        /\ summary[1].skipped = skipped
        /\ summary[1].invalid = invalid_total

\* C17: whenever the loop is about to call smtp.send_message, the session
\* bound to smtp is not one the program has seen disconnected (a send on it
\* raised SMTPServerDisconnected), so it can still be Ready.
C17_NoSendOnLostSession ==
    (pc = "attempt" /\ ~DRY_RUN) => ~sessions[smtp].lost

\* ------------------------------------------------------------------ C12
\* the backoff base of attempt a: min(60, 2^(a-1)) seconds
BackoffBase(a) == Min(BackoffCapMs, SecondMs * Pow2(a - 1))

\* C12: a step that takes a backoff sleep does so after a failed attempt a
\* with 1 <= a < MAX_RETRIES, and the sleep is min(60, 2^(a-1)) s plus a jitter
\* in [0, 0.2 s): at least the base, below base + jitter bound, at most
\* 60 s + jitter bound, and not shorter than the backoff sleep just before it.
C12_BackoffDelay ==
    [][ slept'.kind = "backoff" =>
          /\ 1 <= attempt /\ attempt < MAX_RETRIES
          /\ slept'.ms >= BackoffBase(attempt)
          /\ slept'.ms < BackoffBase(attempt) + JITTER
          /\ slept'.ms <= BackoffCapMs + JITTER
          /\ slept.kind = "backoff" => slept'.ms >= slept.ms ]_vars

\* a backoff at the cap has been taken after a backoff below it (attempt 7
\* failed, attempt 8 is next)
C12_Witness ==
    /\ pc = "attempt"
    /\ attempt = 8
    /\ slept.kind = "backoff"
    /\ slept.ms = BackoffCapMs

\* ------------------------------------------------------------------ C13
\* the enforced keys that are blank in record r, and those of them that have
\* no fallback
BlankEnforced(r) == {key \in used_keys \cap {"name", "company"} : r[key] = ""}
BlankNoFallback(r) == {key \in BlankEnforced(r) : key \notin DOMAIN fallbacks}

\* C13: for a recipient that reached field completion, the check fails exactly
\* when a key in used_keys /\ {name, company} is blank in the record and has no
\* fallback (a blank key no template uses never makes it fail); on failure the
\* recipient is counted failed and nothing else, without build or send; on
\* success every blank enforced key holds its fallback value, every other
\* field holds the record's value, and the message is rendered from that.
C13_RequiredFieldGating ==
    (Len(log) >= 2 /\ log[1] = "fields") =>
        /\ log[2] \in {"missing", "build"}
        /\ log[2] = "missing" <=> BlankNoFallback(base.raw) # {}
        /\ log[2] = "missing" =>
              /\ log = << "fields", "missing" >>
              /\ OnlyFailedCounted
              /\ pc \in {"loop", "done"}
        /\ log[2] = "build" =>
              /\ \A key \in {"name", "company"} :
                    row[key] = IF key \in BlankEnforced(base.raw)
                               THEN fallbacks[key] ELSE base.raw[key]
              /\ msg.name = row.name
              /\ msg.company = row.company

\* a record with a blank name, a template that uses name, no fallback for it
C13_Witness ==
    /\ log = << "fields", "missing" >>
    /\ base.raw.name = ""
    /\ "name" \in used_keys
    /\ "name" \notin DOMAIN fallbacks
    /\ failed = base.failed + 1

\* ------------------------------------------------------------------ C15
\* C15: in the record of the current recipient every transport-lost send is
\* followed at once by exactly one reconnect attempt (before any other send),
\* and a failed reconnect or an unclassified error on attempt a is followed by
\* a backoff and then attempt a + 1 when a < MAX_RETRIES, and otherwise is the
\* recipient's last event, with failed incremented once and no more attempts.
C15_ReconnectOnceThenTemporary ==
    \A k \in DOMAIN log :
        /\ log[k] = "disc" =>
              k < Len(log) /\ log[k + 1] \in {"reconnected", "noreconnect"}
        /\ log[k] \in {"reconnected", "noreconnect"} => k > 1 /\ log[k - 1] = "disc"
        /\ log[k] \in {"noreconnect", "err"} =>
              IF SendsUpTo(log, k) < MAX_RETRIES
              THEN /\ k < Len(log) /\ log[k + 1] = "backoff"
                   /\ IF k + 1 = Len(log)
                      THEN /\ pc = "attempt"
                           /\ attempt = SendsUpTo(log, k) + 1
                           /\ failed = base.failed
                           /\ slept.kind = "backoff"
                      ELSE log[k + 2] \in SendEvents
              ELSE /\ k = Len(log)
                   /\ OnlyFailedCounted
                   /\ pc \in {"pace", "loop", "done"}

\* the first send lost the transport, the reconnect failed, the backoff is
\* over and the second attempt is next
C15_Witness ==
    /\ pc = "attempt"
    /\ attempt = 2
    /\ log = << "fields", "build", "disc", "noreconnect", "backoff" >>

C18_CountersStepByOne ==
    [][ /\ sent' \in {sent, sent + 1}
        /\ failed' \in {failed, failed + 1}
        /\ skipped' \in {skipped, skipped + 1}
        /\ invalid_total' \in {invalid_total, invalid_total + 1}
        /\ (sent' - sent) + (failed' - failed) + (skipped' - skipped) <= 1
        /\ invalid_total' # invalid_total => failed' = failed + 1
        /\ sent' >= base'.sent /\ failed' >= base'.failed /\ skipped' >= base'.skipped
        /\ (sent' - base'.sent) + (failed' - base'.failed)
              + (skipped' - base'.skipped) <= 1
        /\ invalid_total' - base'.invalid \in {0, failed' - base'.failed} ]_vars

\* the second recipient is invalid after the first one was sent
C18_Witness ==
    /\ i = 2
    /\ log = << "invalid" >>
    /\ sent = 1 /\ failed = 1 /\ invalid_total = 1 /\ skipped = 0

\* ------------------------------------------------------------------ C19
\* C19: a recipient whose address has no valid syntax is always rejected as
\* invalid, also when the address stands in the suppression file; a recipient
\* rejected as invalid raises failed and invalid_total by one each, leaves
\* sent and skipped alone, and nothing else happens to it (no suppression
\* skip, no field completion, no build, no send).
C19_InvalidAddress ==
    /\ (i >= 1 /\ ~normalize_email(base.raw.email, TRUE).ok) => log = << "invalid" >>
    /\ (Len(log) >= 1 /\ log[1] = "invalid") =>
          /\ log = << "invalid" >>
          /\ failed = base.failed + 1
          /\ invalid_total = base.invalid + 1
          /\ sent = base.sent
          /\ skipped = base.skipped
          /\ pc \in {"loop", "done"}
          /\ lastSendTo # i

\* an address without @ that is listed in the suppression file
C19_Witness ==
    /\ log = << "invalid" >>
    /\ base.raw.email = << "a", "x" >>
    /\ Lower(base.raw.email) \in suppressions
    /\ skipped = base.skipped

\* ------------------------------------------------------------------ C20
\* C20: a recipient has at most one successful send, which is the last thing
\* that happens to it; sent has gone up by exactly the number of its
\* successful sends; and once it is counted sent, failed or skipped no send
\* attempt for it is pending.
C20_NoDoubleDelivery ==
    /\ Count(log, {"ok"}) <= 1
    /\ sent = base.sent + Count(log, {"ok"})
    /\ \A k \in DOMAIN log : log[k] = "ok" => k = Len(log)
    /\ (sent # base.sent \/ failed # base.failed \/ skipped # base.skipped)
          => pc # "attempt"

\* a send succeeded while attempts were left
C20_Witness ==
    /\ pc = "pace"
    /\ log[Len(log)] = "ok"
    /\ attempt < MAX_RETRIES
    /\ sent = base.sent + 1

====
